---------------------------- MODULE Spec2Model ----------------------------
(***************************************************************************)
(* Model of the Segment / Synapse engine of the HTM temporal layer         *)
(* (src/segment.go): a segment's synapse collection with its add / update  *)
(* / free operations, the segment-update proposal, and the tiered positive *)
(* activation duty cycle; and of the parts of the spatial pooler that      *)
(* src/unnamed/part_000 exercises: neighbourhoods, inhibition, the         *)
(* permanence store and boosting.                                          *)
(*                                                                         *)
(* Numbers.  Go indices are 0-based and are kept 0-based in every argument *)
(* and result; At(s, i) reads the Go element s[i].  A permanence (float64) *)
(* is an integer number of permanence quanta; a duty cycle (float64) is a  *)
(* term [num, den, upd]: the quotient num/den computed in tier 0, followed *)
(* by the moving-average updates <<alpha, age, active>> applied to it      *)
(* since.  Alphas are in units of 1e-7.                                    *)
(***************************************************************************)
EXTENDS Integers, Sequences, FiniteSets

VARIABLES
    lrnIterationIdx,  \* tp.lrnIterationIdx, the learning-iteration counter
    seg,              \* the Segment struct
    op,               \* name of the last operation called on the segment
    arg,              \* its arguments
    ret,              \* what it returned
    outcome,          \* "ok", or the panic that aborted it
    pre,              \* the segment (or pooler) as it was when the call started
    sp                \* the SpatialPooler's matrices and vectors

vars == <<lrnIterationIdx, seg, op, arg, ret, outcome, pre, sp>>

---------------------------------------------------------------------------
(* Bounds of the model *)

MaxSyns == 2          \* synapses a segment may hold
MaxDelta == 2         \* updateSynapses deltas are -MaxDelta..MaxDelta
MaxActivations == 2   \* cap on totalActivations
MaxUpdates == 1       \* cap on moving-average updates kept in a duty cycle
MaxTier == 3          \* tier thresholds explored: SegmentDutyCycleTiers[1..MaxTier]

(* Parameters of the owning TemporalPooler (tp.params): the largest
   permanence, in quanta, and the number of synapses a proposal aims at *)
PermanenceMax == 2
NewSynapseCount == 2

\* the (column, cell index) pairs of the region that the model lets be a
\* synapse source
Cells == {<<0, 1>>, <<1, 0>>}

\* the (column, cell index) of the cell that owns the segment
OwnerCell == <<0, 1>>

---------------------------------------------------------------------------
(* Helpers *)

At(s, i) == s[i + 1]

Min(a, b) == IF a < b THEN a ELSE b

RECURSIVE GCD(_, _)
GCD(a, b) == IF b = 0 THEN a ELSE GCD(b, a % b)

RECURSIVE AscendingSeq(_)
AscendingSeq(S) ==
    IF S = {} THEN <<>>
    ELSE LET m == CHOOSE x \in S : \A y \in S : x <= y
         IN  <<m>> \o AscendingSeq(S \ {m})

\* every list of distinct indices below n, in ascending order
IndexLists(n) == {AscendingSeq(S) : S \in SUBSET (0..(n - 1))}

\* utils.ContainsInt
ContainsInt(i, list) == \E k \in 1..Len(list) : list[k] = i

---------------------------------------------------------------------------
(* Synapse and Segment *)

Synapse(col, idx, perm) ==
    [SrcCellCol |-> col, SrcCellIdx |-> idx, Permanence |-> perm]

\* float64(num) / float64(den)
Ratio(num, den) ==
    LET g == GCD(num, den)
    IN  [num |-> num \div g, den |-> den \div g, upd |-> <<>>]

NewSegment(idx, isSequenceSeg) ==
    [segId |-> 0,
     isSequenceSeg |-> isSequenceSeg,
     lastActiveIteration |-> idx,
     positiveActivations |-> 1,
     totalActivations |-> 1,
     lastPosDutyCycle |-> Ratio(1, idx),
     lastPosDutyCycleIteration |-> idx,
     syns |-> <<>>]

---------------------------------------------------------------------------
(* AddSynapse *)

AddSynapse(s, srcCellCol, srcCellIdx, perm) ==
    [s EXCEPT !.syns = Append(@, Synapse(srcCellCol, srcCellIdx, perm))]

---------------------------------------------------------------------------
(* updateSynapses *)

\* for idx, _ := range synapses: the loop variable is the position in the list
UpdatedPositions(synapses) == {k - 1 : k \in 1..Len(synapses)}

\* the increment without the cap at PermanenceMax
IncPermanence_NoCap(p, delta) == p + delta

IncPermanence(p, delta) ==
    IF p + delta > PermanenceMax THEN PermanenceMax ELSE p + delta

DecPermanence(p, delta) ==
    IF p + delta <= 0 THEN 0 ELSE p + delta

updateSynapses(s, synapses, delta) ==
    LET touched == UpdatedPositions(synapses)
        newSyns == [k \in 1..Len(s.syns) |->
                      IF (k - 1) \in touched
                      THEN [s.syns[k] EXCEPT !.Permanence =
                              IF delta > 0 THEN IncPermanence(@, delta)
                                           ELSE DecPermanence(@, delta)]
                      ELSE s.syns[k]]
        hitZero == /\ ~(delta > 0)
                   /\ \E i \in touched : At(s.syns, i).Permanence + delta <= 0
    IN  IF \E i \in touched : i >= Len(s.syns)
        THEN [outcome |-> "index out of range", segment |-> s, hitZero |-> FALSE]
        ELSE [outcome |-> "ok",
              segment |-> [s EXCEPT !.syns = newSyns],
              hitZero |-> hitZero]

---------------------------------------------------------------------------
(* freeNSynapses *)

PanicNumToFree == "Number to free cannot be larger than existing synapses."
PanicArgsort == "floats: length of inds does not match length of slice"
PanicIndex == "index out of range"

\* floats.Argsort(dst, inds) panics unless the two slices have the same
\* length, and otherwise writes the sorting permutation into inds in place.
ArgsortPanics(dst, inds) == Len(dst) # Len(inds)

\* var indexes []int: the nil slice handed to Argsort.  Argsort gets the slice
\* header by value, so the caller's indexes has length 0 after the call too.
NilIndexes == <<>>

\* the guard off by one: a request for one synapse too many gets through
TooManyToFree_OffByOne(numToFree, syns) == numToFree > Len(syns) + 1

\* the guard of lines 179-181
TooManyToFree(numToFree, syns) == numToFree > Len(syns)

\* lines 188-204: candidates among the inactive synapses
\* [panic |-> "" or the panic raised, candidates |-> the candidates so far]
InactiveCandidates(syns, numToFree, inactiveSynapseIndices) ==
    IF ~(Len(inactiveSynapseIndices) > 0)
    THEN [panic |-> "", candidates |-> <<>>]
    ELSE
      \* perms[idx] = s.syns[idx].Permanence, idx the position in the list
      IF Len(inactiveSynapseIndices) > Len(syns)
      THEN [panic |-> PanicIndex, candidates |-> <<>>]
      ELSE
        LET perms == [k \in 1..Len(inactiveSynapseIndices) |-> syns[k].Permanence]
            indexes == NilIndexes
            cSize == Min(numToFree, Len(perms))
        IN  IF ArgsortPanics(perms, indexes)
            THEN [panic |-> PanicArgsort, candidates |-> <<>>]
            ELSE IF cSize > Len(indexes)
            THEN [panic |-> PanicIndex, candidates |-> <<>>]
            ELSE [panic |-> "",
                  candidates |->
                    [i \in 1..cSize |-> At(inactiveSynapseIndices, indexes[i])]]

\* lines 206-227: make up the difference from the active synapses
ActiveCandidates(syns, numToFree, inactiveSynapseIndices, candidates) ==
    IF ~(Len(candidates) < numToFree)
    THEN [panic |-> "", candidates |-> candidates]
    ELSE
      LET activeSynIndices ==
              AscendingSeq({i \in 0..(Len(syns) - 1) :
                              ~ContainsInt(i, inactiveSynapseIndices)})
          \* perms[i] = s.syns[i].Permanence, i the position in activeSynIndices
          perms == [k \in 1..Len(activeSynIndices) |-> syns[k].Permanence]
          indexes == NilIndexes
          moreToFree == numToFree - Len(candidates)
      IN  IF ArgsortPanics(perms, indexes)
          THEN [panic |-> PanicArgsort, candidates |-> candidates]
          ELSE IF moreToFree > Len(indexes)
          THEN [panic |-> PanicIndex, candidates |-> candidates]
          ELSE [panic |-> "",
                candidates |-> candidates \o
                  [i \in 1..moreToFree |-> At(activeSynIndices, indexes[i])]]

\* the undeleted synapses copied last to first
RemoveCandidates_LastFirst(syns, candidates) ==
    LET keep == AscendingSeq({i \in 0..(Len(syns) - 1) : ~ContainsInt(i, candidates)})
    IN  [k \in 1..Len(keep) |-> At(syns, keep[Len(keep) + 1 - k])]

\* lines 235-242: copy the undeleted synapses to a new slice
RemoveCandidates(syns, candidates) ==
    LET keep == AscendingSeq({i \in 0..(Len(syns) - 1) : ~ContainsInt(i, candidates)})
    IN  [k \in 1..Len(keep) |-> At(syns, keep[k])]

freeNSynapses(s, numToFree, inactiveSynapseIndices) ==
    IF TooManyToFree(numToFree, s.syns)
    THEN [outcome |-> PanicNumToFree, segment |-> s]
    ELSE
      LET c1 == InactiveCandidates(s.syns, numToFree, inactiveSynapseIndices)
      IN  IF c1.panic # ""
          THEN [outcome |-> c1.panic, segment |-> s]
          ELSE
            LET c2 == ActiveCandidates(s.syns, numToFree, inactiveSynapseIndices,
                                       c1.candidates)
            IN  IF c2.panic # ""
                THEN [outcome |-> c2.panic, segment |-> s]
                ELSE [outcome |-> "ok",
                      segment |-> [s EXCEPT !.syns =
                                     RemoveCandidates(@, c2.candidates)]]

---------------------------------------------------------------------------
(* getSegmentActiveSynapses *)

SynapseUpdateState(index, cellIndex, new) ==
    [Index |-> index, CellIndex |-> cellIndex, New |-> new]

\* the lookup with row and column exchanged
ActiveStateGet_Swapped(activeState, col, cell) == <<cell, col>> \in activeState

\* activeState.Get(col, cell): activeState is the set of active cells
ActiveStateGet(activeState, col, cell) == <<col, cell>> \in activeState

\* lines 308-316: the existing synapses whose source cell is active
ExistingActiveSynapses(s, isNil, activeState) ==
    IF isNil THEN <<>>
    ELSE LET act == AscendingSeq({i \in 0..(Len(s.syns) - 1) :
                      ActiveStateGet(activeState, At(s.syns, i).SrcCellCol,
                                     At(s.syns, i).SrcCellIdx)})
         IN  [k \in 1..Len(act) |-> SynapseUpdateState(act[k], 0, FALSE)]

\* the count asked for without taking off the active synapses found
NSynapsesToAdd_All(activeSynapses) == NewSynapseCount

\* line 319
NSynapsesToAdd(activeSynapses) == NewSynapseCount - Len(activeSynapses)

\* tp.chooseCellsToLearnFrom(s, n, activeState): the cell-selection policy of
\* the temporal layer; it may return any list of at most n distinct cells
\* (none when n <= 0), each as (Row, Col) = (column, cell index).
chooseCellsToLearnFrom(n) ==
    {sq \in UNION {[1..k -> Cells] : k \in 0..Cardinality(Cells)} :
        /\ Len(sq) <= (IF n < 0 THEN 0 ELSE n)
        /\ \A a, b \in 1..Len(sq) : a < b =>
              \/ sq[a][1] < sq[b][1]
              \/ sq[a][1] = sq[b][1] /\ sq[a][2] < sq[b][2]}

\* lines 318-320: whether the policy is called, and the count it is asked for
PolicyRequest(s, isNil, activeState, newSynapses) ==
    [called |-> newSynapses,
     n |-> IF newSynapses
           THEN NSynapsesToAdd(ExistingActiveSynapses(s, isNil, activeState))
           ELSE 0]

\* lines 322-328
NewSynapseEntries(newSyns) ==
    [k \in 1..Len(newSyns) |-> SynapseUpdateState(newSyns[k][1], newSyns[k][2], TRUE)]

\* the proposal committed instead of returned: the new sources are appended
\* to the segment
SegmentAfterProposal_Commit(s, newEntries) ==
    [s EXCEPT !.syns = @ \o [k \in 1..Len(newEntries) |->
                               Synapse(newEntries[k].Index, newEntries[k].CellIndex, 0)]]

\* the segment after the call: no statement of the function assigns to it
SegmentAfterProposal(s, newEntries) == s

\* result: the SegmentUpdate returned; segment: the segment after the call
getSegmentActiveSynapses(c, i, s, isNil, activeState, newSynapses, newSyns) ==
    LET activeSynapses == ExistingActiveSynapses(s, isNil, activeState)
        newEntries == IF newSynapses THEN NewSynapseEntries(newSyns) ELSE <<>>
    IN  [result |-> [activeSynapses |-> activeSynapses \o newEntries,
                     columnIdx |-> c,
                     cellIdx |-> i,
                     segmentIsNil |-> isNil],
         segment |-> SegmentAfterProposal(s, newEntries)]

---------------------------------------------------------------------------
(* dutyCycle *)

SegmentDutyCycleTiers == <<0, 100, 320, 1000, 3200, 10000, 32000, 100000, 320000>>

SegmentDutyCycleAlphas == <<0, 32000, 10000, 3200, 1000, 320, 100, 32, 10>>

\* tier 0 ending one iteration early
InTierZero_Strict(idx) == idx < At(SegmentDutyCycleTiers, 1)

\* line 127
InTierZero(idx) == idx <= At(SegmentDutyCycleTiers, 1)

\* line 128
TierZeroDutyCycle(s, idx) == Ratio(s.positiveActivations, idx)

\* the age taken from the wrong iteration field
Age_SinceLastActive(s, idx) == idx - s.lastActiveIteration

\* line 137
Age(s, idx) == idx - s.lastPosDutyCycleIteration

\* line 140
UpToDate(age, active) == age = 0 /\ ~active

\* the tier comparison with >= in place of >
SelectAlpha_AtOrAbove(idx) ==
    LET hits == {i \in 1..(Len(SegmentDutyCycleTiers) - 1) :
                    idx >= At(SegmentDutyCycleTiers, i)}
    IN  IF hits = {} THEN 0
        ELSE At(SegmentDutyCycleAlphas, CHOOSE i \in hits : \A j \in hits : j <= i)

\* lines 144-151: the first i, from the last tier down to 1, whose threshold
\* the iteration exceeds; 0.0 when there is none
SelectAlpha(idx) ==
    LET hits == {i \in 1..(Len(SegmentDutyCycleTiers) - 1) :
                    idx > At(SegmentDutyCycleTiers, i)}
    IN  IF hits = {} THEN 0
        ELSE At(SegmentDutyCycleAlphas, CHOOSE i \in hits : \A j \in hits : j <= i)

\* lines 154-158: math.Pow(1.0-alpha, age) * last, plus alpha when active.
\* With alpha = 0, or with age = 0 and not active, the float result is last.
MovingAverage(last, alpha, age, active) ==
    IF alpha = 0 \/ (age = 0 /\ ~active) THEN last
    ELSE [last EXCEPT !.upd = Append(@, <<alpha, age, active>>)]

\* lines 129-132
StoreTierZero(s, idx, dc, readOnly) ==
    IF ~readOnly
    THEN [s EXCEPT !.lastPosDutyCycleIteration = idx, !.lastPosDutyCycle = dc]
    ELSE s

\* the cached value written without the iteration it belongs to
StoreMovingAverage_ValueOnly(s, idx, dc, readOnly) ==
    IF ~readOnly
    THEN [s EXCEPT !.lastPosDutyCycle = dc]
    ELSE s

\* the cache written without looking at readOnly
StoreMovingAverage_Always(s, idx, dc, readOnly) ==
    [s EXCEPT !.lastPosDutyCycleIteration = idx, !.lastPosDutyCycle = dc]

\* lines 160-164
StoreMovingAverage(s, idx, dc, readOnly) ==
    IF ~readOnly
    THEN [s EXCEPT !.lastPosDutyCycleIteration = idx, !.lastPosDutyCycle = dc]
    ELSE s

\* value: the duty cycle returned; alpha: the alpha used, -1 when none was
\* selected; segment: the segment after the call
dutyCycle(s, idx, active, readOnly) ==
    IF InTierZero(idx)
    THEN LET dc == TierZeroDutyCycle(s, idx)
         IN  [value |-> dc, alpha |-> -1,
              segment |-> StoreTierZero(s, idx, dc, readOnly)]
    ELSE LET age == Age(s, idx)
         IN  IF UpToDate(age, active)
             THEN [value |-> s.lastPosDutyCycle, alpha |-> -1, segment |-> s]
             ELSE LET alpha == SelectAlpha(idx)
                      dc == MovingAverage(s.lastPosDutyCycle, alpha, age, active)
                  IN  [value |-> dc, alpha |-> alpha,
                       segment |-> StoreMovingAverage(s, idx, dc, readOnly)]

---------------------------------------------------------------------------
(* ToString *)

ToString(s, idx) ==
    LET dc == dutyCycle(s, idx, FALSE, TRUE)
    IN  [text |-> <<s.segId, s.isSequenceSeg, dc.value, s.positiveActivations,
                    s.totalActivations, idx - s.lastActiveIteration, s.syns>>,
         segment |-> dc.segment]

---------------------------------------------------------------------------
(* The temporal layer around the segment *)

\* iterations at which the model looks at the segment: the first ones, and
\* the ones around each tier threshold explored
IterationValues ==
    {1, 2} \cup {At(SegmentDutyCycleTiers, i) + d : i \in 1..MaxTier, d \in {0, 1}}

\* the temporal layer counts an activation of the segment, a positive one
\* when the segment predicted correctly
CountActivation(s, idx, positive) ==
    IF positive
    THEN [s EXCEPT !.totalActivations = @ + 1,
                   !.positiveActivations = @ + 1,
                   !.lastActiveIteration = idx]
    ELSE [s EXCEPT !.totalActivations = @ + 1]

(* The segment engine runs without a spatial pooler *)
NoPooler == <<>>

NoCall(s) ==
    /\ op' = "none"
    /\ arg' = <<>>
    /\ ret' = <<>>
    /\ outcome' = "ok"
    /\ pre' = s

---------------------------------------------------------------------------
(* State machine of the synapse engine *)

Init ==
    /\ lrnIterationIdx = 1
    /\ \E isSequenceSeg \in BOOLEAN : seg = NewSegment(1, isSequenceSeg)
    /\ op = "none"
    /\ arg = <<>>
    /\ ret = <<>>
    /\ outcome = "ok"
    /\ pre = seg
    /\ sp = NoPooler

DoAddSynapse ==
    /\ Len(seg.syns) < MaxSyns
    /\ \E cell \in Cells, perm \in 0..PermanenceMax :
          /\ seg' = AddSynapse(seg, cell[1], cell[2], perm)
          /\ arg' = [srcCellCol |-> cell[1], srcCellIdx |-> cell[2], perm |-> perm]
    /\ op' = "AddSynapse"
    /\ ret' = <<>>
    /\ outcome' = "ok"
    /\ pre' = seg
    /\ UNCHANGED <<lrnIterationIdx, sp>>

DoUpdateSynapses ==
    /\ \E synapses \in IndexLists(Len(seg.syns)), delta \in (-MaxDelta)..MaxDelta :
          LET r == updateSynapses(seg, synapses, delta)
          IN  /\ seg' = r.segment
              /\ arg' = [synapses |-> synapses, delta |-> delta]
              /\ ret' = r.hitZero
              /\ outcome' = r.outcome
    /\ op' = "updateSynapses"
    /\ pre' = seg
    /\ UNCHANGED <<lrnIterationIdx, sp>>

DoFreeNSynapses ==
    /\ \E numToFree \in 0..(Len(seg.syns) + 1),
          inactiveSynapseIndices \in IndexLists(Len(seg.syns)) :
          LET r == freeNSynapses(seg, numToFree, inactiveSynapseIndices)
          IN  /\ seg' = r.segment
              /\ arg' = [numToFree |-> numToFree,
                         inactiveSynapseIndices |-> inactiveSynapseIndices]
              /\ outcome' = r.outcome
    /\ op' = "freeNSynapses"
    /\ ret' = <<>>
    /\ pre' = seg
    /\ UNCHANGED <<lrnIterationIdx, sp>>

DoGetSegmentActiveSynapses ==
    /\ \E cell \in {OwnerCell}, isNil \in BOOLEAN, activeState \in SUBSET Cells,
          newSynapses \in BOOLEAN :
          \E newSyns \in
                IF PolicyRequest(seg, isNil, activeState, newSynapses).called
                THEN chooseCellsToLearnFrom(
                        PolicyRequest(seg, isNil, activeState, newSynapses).n)
                ELSE {<<>>} :
             LET r == getSegmentActiveSynapses(cell[1], cell[2], seg, isNil,
                                               activeState, newSynapses, newSyns)
                 q == PolicyRequest(seg, isNil, activeState, newSynapses)
             IN  /\ seg' = r.segment
                 /\ arg' = [c |-> cell[1], i |-> cell[2], isNil |-> isNil,
                            activeState |-> activeState,
                            newSynapses |-> newSynapses, newSyns |-> newSyns,
                            policyCalled |-> q.called, nRequested |-> q.n]
                 /\ ret' = r.result
    /\ op' = "getSegmentActiveSynapses"
    /\ outcome' = "ok"
    /\ pre' = seg
    /\ UNCHANGED <<lrnIterationIdx, sp>>

Next ==
    \/ DoAddSynapse
    \/ DoUpdateSynapses
    \/ DoFreeNSynapses
    \/ DoGetSegmentActiveSynapses

Spec == Init /\ [][Next]_vars

---------------------------------------------------------------------------
(* State machine of the duty cycle *)

InitDuty ==
    /\ lrnIterationIdx \in IterationValues
    /\ \E isSequenceSeg \in BOOLEAN : seg = NewSegment(lrnIterationIdx, isSequenceSeg)
    /\ op = "none"
    /\ arg = <<>>
    /\ ret = <<>>
    /\ outcome = "ok"
    /\ pre = seg
    /\ sp = NoPooler

DoAdvanceIteration ==
    /\ \E idx \in IterationValues :
          /\ idx > lrnIterationIdx
          /\ lrnIterationIdx' = idx
    /\ seg' = seg
    /\ NoCall(seg)
    /\ UNCHANGED sp

DoCountActivation ==
    /\ seg.totalActivations < MaxActivations
    /\ \E positive \in BOOLEAN : seg' = CountActivation(seg, lrnIterationIdx, positive)
    /\ NoCall(seg')
    /\ UNCHANGED <<lrnIterationIdx, sp>>

DoDutyCycle ==
    /\ \E active \in BOOLEAN, readOnly \in BOOLEAN :
          LET r == dutyCycle(seg, lrnIterationIdx, active, readOnly)
          IN  /\ Len(r.segment.lastPosDutyCycle.upd) <= MaxUpdates
              /\ seg' = r.segment
              /\ arg' = [active |-> active, readOnly |-> readOnly]
              /\ ret' = [value |-> r.value, alpha |-> r.alpha]
    /\ op' = "dutyCycle"
    /\ outcome' = "ok"
    /\ pre' = seg
    /\ UNCHANGED <<lrnIterationIdx, sp>>

DoToString ==
    /\ LET r == ToString(seg, lrnIterationIdx)
       IN  /\ seg' = r.segment
           /\ ret' = r.text
    /\ op' = "ToString"
    /\ arg' = <<>>
    /\ outcome' = "ok"
    /\ pre' = seg
    /\ UNCHANGED <<lrnIterationIdx, sp>>

NextDuty ==
    \/ DoAdvanceIteration
    \/ DoCountActivation
    \/ DoDutyCycle
    \/ DoToString

SpecDuty == InitDuty /\ [][NextDuty]_vars

---------------------------------------------------------------------------
(* Properties of freeNSynapses *)

\* the indices a list names
Named(list) == {list[k] : k \in 1..Len(list)}

FreeCalled == op = "freeNSynapses"

\* syns with the synapses at the indices F taken out
Without(syns, F) == RemoveCandidates(syns, AscendingSeq(F))

\* F takes the k lowest-permanence synapses of the index set S
LowestOf(syns, F, S, k) ==
    /\ F \subseteq S
    /\ Cardinality(F) = k
    /\ \A f \in F, r \in S \ F : At(syns, f).Permanence <= At(syns, r).Permanence

\* C1: a call freeNSynapses(numToFree, inactiveIndices) with 0 <= numToFree <=
\* number of synapses and valid inactive indices completes and leaves exactly
\* (previous count - numToFree) synapses.
C1_FreesExactlyNumToFree ==
    (FreeCalled /\ arg.numToFree <= Len(pre.syns)) =>
        /\ outcome = "ok"
        /\ Len(seg.syns) = Len(pre.syns) - arg.numToFree

\* C2: the synapses freed are the min(numToFree, |inactive|) lowest-permanence
\* ones among those named inactive, plus, only when the inactive ones do not
\* suffice, the lowest-permanence ones among the active synapses.
C2_FreesInactiveLowestFirst ==
    (FreeCalled /\ arg.numToFree <= Len(pre.syns)) =>
        LET inactive == Named(arg.inactiveSynapseIndices)
            active == (0..(Len(pre.syns) - 1)) \ inactive
            k == Min(arg.numToFree, Cardinality(inactive))
        IN  /\ outcome = "ok"
            /\ \E FI \in SUBSET inactive, FA \in SUBSET active :
                  /\ LowestOf(pre.syns, FI, inactive, k)
                  /\ LowestOf(pre.syns, FA, active, arg.numToFree - k)
                  /\ seg.syns = Without(pre.syns, FI \cup FA)

\* C3: asked to free more synapses than the segment holds, freeNSynapses
\* aborts with its "number to free" panic and the segment is unchanged.
C3_TooManyAborts ==
    (FreeCalled /\ arg.numToFree > Len(pre.syns)) =>
        /\ outcome = PanicNumToFree
        /\ seg = pre

C3_Witness ==
    /\ FreeCalled
    /\ arg.numToFree > Len(pre.syns)
    /\ Len(pre.syns) = MaxSyns
    /\ arg.inactiveSynapseIndices # <<>>
    /\ outcome = PanicNumToFree

---------------------------------------------------------------------------
(* Properties of updateSynapses *)

UpdateCalled == op = "updateSynapses"

\* C4: with delta > 0, updateSynapses adds delta to the permanence of each
\* synapse whose index is an element of indices, capped at PermanenceMax.
C4_IncrementsNamedSynapses ==
    (UpdateCalled /\ arg.delta > 0) =>
        /\ outcome = "ok"
        /\ \A i \in Named(arg.synapses) :
              At(seg.syns, i).Permanence =
                 Min(At(pre.syns, i).Permanence + arg.delta, PermanenceMax)

\* C5: with delta <= 0, updateSynapses adds delta to each named synapse's
\* permanence floored at 0 and returns true exactly when a named synapse ended
\* at permanence 0; with delta > 0 it returns false.
C5_DecrementsNamedSynapses ==
    UpdateCalled =>
        /\ outcome = "ok"
        /\ arg.delta > 0 => ret = FALSE
        /\ arg.delta <= 0 =>
              /\ \A i \in Named(arg.synapses) :
                    At(seg.syns, i).Permanence =
                       IF At(pre.syns, i).Permanence + arg.delta <= 0 THEN 0
                       ELSE At(pre.syns, i).Permanence + arg.delta
              /\ ret = (\E i \in Named(arg.synapses) : At(seg.syns, i).Permanence = 0)

---------------------------------------------------------------------------
(* Properties of dutyCycle *)

DutyCalled == op = "dutyCycle"

\* C6: dutyCycle with readOnly = true, in either regime and for either value
\* of active, changes no field of the segment; neither does ToString.
C6_ReadOnlyChangesNothing ==
    ((DutyCalled /\ arg.readOnly) \/ op = "ToString") => seg = pre

C6_Witness ==
    /\ DutyCalled
    /\ arg.readOnly
    /\ arg.active
    /\ ~InTierZero(lrnIterationIdx)
    /\ pre.lastPosDutyCycleIteration < lrnIterationIdx
    /\ ret.value # pre.lastPosDutyCycle

\* C7: in tier 0 (1 <= iteration <= 100) dutyCycle returns positiveActivations
\* / iteration whatever active and the cache are, and unless read-only stores
\* that value and the iteration in the cache.
C7_TierZeroIsRatio ==
    (DutyCalled /\ 1 <= lrnIterationIdx /\ lrnIterationIdx <= 100) =>
        /\ ret.value.upd = <<>>
        /\ ret.value.num * lrnIterationIdx = ret.value.den * pre.positiveActivations
        /\ ~arg.readOnly =>
              /\ seg.lastPosDutyCycle = ret.value
              /\ seg.lastPosDutyCycleIteration = lrnIterationIdx

C7_Witness ==
    /\ DutyCalled
    /\ lrnIterationIdx = 100
    /\ ~arg.readOnly
    /\ arg.active
    /\ pre.positiveActivations = 2
    /\ pre.lastPosDutyCycleIteration < 100
    /\ seg.lastPosDutyCycle # pre.lastPosDutyCycle
    /\ seg.lastPosDutyCycleIteration = 100

\* the alpha paired with the largest tier threshold that is <= idx
AlphaOfLargestTierAtOrBelow(idx, alpha) ==
    \E i \in 0..(Len(SegmentDutyCycleTiers) - 1) :
        /\ At(SegmentDutyCycleTiers, i) <= idx
        /\ \A j \in 0..(Len(SegmentDutyCycleTiers) - 1) :
              At(SegmentDutyCycleTiers, j) <= idx =>
                 At(SegmentDutyCycleTiers, j) <= At(SegmentDutyCycleTiers, i)
        /\ alpha = At(SegmentDutyCycleAlphas, i)

\* the alpha paired with the largest tier threshold that is < idx
AlphaOfLargestTierBelow(idx, alpha) ==
    \E i \in 0..(Len(SegmentDutyCycleTiers) - 1) :
        /\ At(SegmentDutyCycleTiers, i) < idx
        /\ \A j \in 0..(Len(SegmentDutyCycleTiers) - 1) :
              At(SegmentDutyCycleTiers, j) < idx =>
                 At(SegmentDutyCycleTiers, j) <= At(SegmentDutyCycleTiers, i)
        /\ alpha = At(SegmentDutyCycleAlphas, i)

\* at every threshold of the table beyond tier 0 the alpha selected is the one
\* of the tier before, and one iteration later it is the threshold's own
AlphaSwitchesAfterThreshold ==
    \A i \in 1..(Len(SegmentDutyCycleTiers) - 1) :
        /\ i > 1 => SelectAlpha(At(SegmentDutyCycleTiers, i)) =
                        At(SegmentDutyCycleAlphas, i - 1)
        /\ SelectAlpha(At(SegmentDutyCycleTiers, i) + 1) =
              At(SegmentDutyCycleAlphas, i)

\* C8 as claimed: beyond tier 0 the alpha dutyCycle uses is the one paired
\* with the largest tier threshold <= the current iteration, also when the
\* iteration equals a threshold.
C8_AlphaOfTierAtOrBelow ==
    (DutyCalled /\ lrnIterationIdx > 100 /\ ret.alpha # -1) =>
        AlphaOfLargestTierAtOrBelow(lrnIterationIdx, ret.alpha)

\* C8 as the code has it: beyond tier 0 the alpha dutyCycle uses is the one
\* paired with the largest tier threshold strictly below the current
\* iteration; at an iteration equal to a threshold it is still the alpha of
\* the tier before.  The selection is checked at every threshold of the table.
C8_AlphaOfTierBelow ==
    /\ (DutyCalled /\ lrnIterationIdx > 100 /\ ret.alpha # -1) =>
          AlphaOfLargestTierBelow(lrnIterationIdx, ret.alpha)
    /\ AlphaSwitchesAfterThreshold

C8_Witness ==
    /\ DutyCalled
    /\ lrnIterationIdx = 320
    /\ ret.alpha = 32000
    /\ ret.value # pre.lastPosDutyCycle

\* C9: beyond tier 0, with the cache updated at the current iteration and
\* active false, dutyCycle returns the cached value and changes no segment
\* state, whatever readOnly is.
C9_UpToDateReturnsCache ==
    (/\ DutyCalled
     /\ ~InTierZero(lrnIterationIdx)
     /\ pre.lastPosDutyCycleIteration = lrnIterationIdx
     /\ ~arg.active) =>
        /\ ret.value = pre.lastPosDutyCycle
        /\ seg = pre

C9_Witness ==
    /\ DutyCalled
    /\ ~InTierZero(lrnIterationIdx)
    /\ pre.lastPosDutyCycleIteration = lrnIterationIdx
    /\ pre.lastActiveIteration < lrnIterationIdx
    /\ ~arg.active
    /\ ~arg.readOnly
    /\ pre.lastPosDutyCycle.upd # <<>>
    /\ ret.value = pre.lastPosDutyCycle

---------------------------------------------------------------------------
(* Properties of getSegmentActiveSynapses *)

ProposalCalled == op = "getSegmentActiveSynapses"

\* C10: getSegmentActiveSynapses leaves the segment it is given as it was:
\* synapse list, activation counters and duty-cycle cache are the same before
\* and after the call, for every activeState and new-synapse flag.
C10_ProposalLeavesSegment ==
    ProposalCalled => seg = pre

C10_Witness ==
    /\ ProposalCalled
    /\ ~arg.isNil
    /\ arg.newSynapses
    /\ Len(pre.syns) = MaxSyns
    /\ \E k \in 1..Len(ret.activeSynapses) : ~ret.activeSynapses[k].New
    /\ \E k \in 1..Len(ret.activeSynapses) : ret.activeSynapses[k].New

\* the synapse indices of the segment given whose source cell is active
ActiveSources ==
    IF arg.isNil THEN {}
    ELSE {i \in 0..(Len(pre.syns) - 1) :
            <<At(pre.syns, i).SrcCellCol, At(pre.syns, i).SrcCellIdx>> \in arg.activeState}

\* the positions of the proposal's entries that are not marked new
ExistingEntries == {k \in 1..Len(ret.activeSynapses) : ~ret.activeSynapses[k].New}

\* C11: the entries of the proposal not marked new are exactly the indices of
\* the segment's synapses whose source (column, cell) is set in activeState,
\* each once and in ascending index order; for a nil segment there is none;
\* the proposal carries the column and cell index given.
C11_ExistingPartIsActiveSources ==
    ProposalCalled =>
        /\ {ret.activeSynapses[k].Index : k \in ExistingEntries} = ActiveSources
        /\ Cardinality(ExistingEntries) = Cardinality(ActiveSources)
        /\ \A a, b \in ExistingEntries :
              a < b => ret.activeSynapses[a].Index < ret.activeSynapses[b].Index
        /\ arg.isNil => ExistingEntries = {}
        /\ ret.columnIdx = arg.c
        /\ ret.cellIdx = arg.i
        /\ ret.segmentIsNil = arg.isNil

C11_Witness ==
    /\ ProposalCalled
    /\ ~arg.isNil
    /\ Len(pre.syns) = MaxSyns
    /\ ActiveSources = {Len(pre.syns) - 1}
    /\ arg.activeState # Cells
    /\ ExistingEntries # {}

\* C12: when growth is requested the policy is asked for exactly
\* NewSynapseCount - (number of active existing synapses) cells and every cell
\* it returns is appended, marked new, after all the existing entries; when
\* growth is not requested the policy is not called and no entry is new.
C12_NewSynapsesFromPolicy ==
    ProposalCalled =>
        LET nExisting == Cardinality(ActiveSources)
            entries == ret.activeSynapses
        IN  /\ arg.newSynapses =>
                  /\ arg.policyCalled
                  /\ arg.nRequested = NewSynapseCount - nExisting
                  /\ Len(entries) = nExisting + Len(arg.newSyns)
                  /\ \A k \in 1..nExisting : ~entries[k].New
                  /\ \A k \in 1..Len(arg.newSyns) :
                        /\ entries[nExisting + k].New
                        /\ entries[nExisting + k].Index = arg.newSyns[k][1]
                        /\ entries[nExisting + k].CellIndex = arg.newSyns[k][2]
            /\ ~arg.newSynapses =>
                  /\ ~arg.policyCalled
                  /\ Len(entries) = nExisting
                  /\ \A k \in 1..Len(entries) : ~entries[k].New

C12_Witness ==
    /\ ProposalCalled
    /\ arg.newSynapses
    /\ Cardinality(ActiveSources) = 1
    /\ arg.nRequested = NewSynapseCount - 1
    /\ Len(arg.newSyns) = 1
    /\ Len(ret.activeSynapses) = 2
    /\ ret.activeSynapses[2].New

---------------------------------------------------------------------------
(* Permanence range *)

\* C13: in every state reached by AddSynapse (with a permanence in
\* [0, PermanenceMax]), updateSynapses and freeNSynapses calls, every
\* synapse's permanence lies in [0, PermanenceMax].
C13_PermanenceInRange ==
    \A k \in 1..Len(seg.syns) :
        /\ 0 <= seg.syns[k].Permanence
        /\ seg.syns[k].Permanence <= PermanenceMax

C13_Witness ==
    /\ UpdateCalled
    /\ arg.delta > 0
    /\ outcome = "ok"
    /\ \E k \in 1..Len(seg.syns) :
          /\ pre.syns[k].Permanence + arg.delta > PermanenceMax
          /\ seg.syns[k].Permanence = PermanenceMax

---------------------------------------------------------------------------
(* Spatial pooler: neighbourhoods and inhibition.

   Numbers.  An overlap (float64) is an integer number of tenths; a density
   (float64) is the quotient <<num, den>>.  A column index is the row-major
   position of the column in the lattice sp.ColumnDimensions, the last axis
   varying fastest. *)

MaxAxis == 2          \* an axis of a lattice holds 1..MaxAxis columns
MaxRadius == 2        \* neighbourhood and inhibition radii are at most MaxRadius
MaxColumns == 4       \* overlap vectors hold 1..MaxColumns columns
MaxOverlap == 2       \* overlaps are 0..MaxOverlap

\* lattices have 1..MaxRank axes, as those of TestGetNeighborsND
MaxRank == 4

Elements(list) == {list[k] : k \in 1..Len(list)}

NoDuplicates(list) ==
    \A k, l \in 1..Len(list) : list[k] = list[l] => k = l

RECURSIVE NumCells(_)
NumCells(dimensions) ==
    IF dimensions = <<>> THEN 1
    ELSE Head(dimensions) * NumCells(Tail(dimensions))

\* the coordinate of column index on one axis (axes are numbered from 1)
Coordinate(index, dimensions, axis) ==
    (index \div NumCells(SubSeq(dimensions, axis + 1, Len(dimensions))))
        % dimensions[axis]

SeenCoordinate_Never(coord, found) == FALSE

SeenCoordinate(coord, found) == ContainsInt(coord, found)

\* the coordinates of one axis within radius of c, in the order of the
\* offsets -radius..radius, each coordinate once; wrapping takes the
\* coordinate modulo the axis size, not wrapping drops what falls outside
RECURSIVE AxisNeighbors(_, _, _, _, _, _)
AxisNeighbors(c, size, offset, radius, wrapAround, found) ==
    IF offset > radius THEN found
    ELSE LET raw == c + offset
             inLattice == wrapAround \/ (raw >= 0 /\ raw < size)
             coord == raw % size
         IN  AxisNeighbors(c, size, offset + 1, radius, wrapAround,
                 IF inLattice /\ ~SeenCoordinate(coord, found)
                 THEN Append(found, coord)
                 ELSE found)

\* every index of prefixes extended by every coordinate of the next axis,
\* the next axis varying fastest
RECURSIVE ExtendByAxis(_, _, _)
ExtendByAxis(prefixes, coords, size) ==
    IF prefixes = <<>> THEN <<>>
    ELSE [k \in 1..Len(coords) |-> Head(prefixes) * size + coords[k]]
             \o ExtendByAxis(Tail(prefixes), coords, size)

RECURSIVE CombineAxes(_, _, _, _, _, _)
CombineAxes(prefixes, columnIndex, dimensions, axis, radius, wrapAround) ==
    IF axis > Len(dimensions) THEN prefixes
    ELSE CombineAxes(
             ExtendByAxis(prefixes,
                 AxisNeighbors(Coordinate(columnIndex, dimensions, axis),
                     dimensions[axis], -radius, radius, wrapAround, <<>>),
                 dimensions[axis]),
             columnIndex, dimensions, axis + 1, radius, wrapAround)

getNeighborsND(columnIndex, dimensions, radius, wrapAround) ==
    SelectSeq(CombineAxes(<<0>>, columnIndex, dimensions, 1, radius, wrapAround),
              LAMBDA index : index # columnIndex)

---------------------------------------------------------------------------
(* Inhibition *)

\* the part of the SpatialPooler the inhibition reads
InhibitionPooler(numColumns, inhibitionRadius) ==
    [numColumns |-> numColumns,
     ColumnDimensions |-> <<numColumns>>,
     inhibitionRadius |-> inhibitionRadius]

\* int(density * float64(numColumns))
NumActive(density, numColumns) == (density[1] * numColumns) \div density[2]

SortsAfter_LowIndexLast(overlaps, j, i) ==
    \/ At(overlaps, j) > At(overlaps, i)
    \/ At(overlaps, j) = At(overlaps, i) /\ j < i

\* column j stands after column i in the stable ascending sort by overlap
SortsAfter(overlaps, j, i) ==
    \/ At(overlaps, j) > At(overlaps, i)
    \/ At(overlaps, j) = At(overlaps, i) /\ j > i

\* the last numActive columns of the stable ascending sort by overlap, in
\* ascending index order
inhibitColumnsGlobal(pooler, overlaps, density) ==
    LET columns == 0..(pooler.numColumns - 1)
        numActive == NumActive(density, pooler.numColumns)
    IN  AscendingSeq({i \in columns :
            Cardinality({j \in columns : SortsAfter(overlaps, j, i)}) < numActive})

\* count is below the density's share of size
BelowShare(count, density, size) == count * density[2] < density[1] * size

\* count is at least the share of size the density leaves over
AtLeastRest(count, density, size) ==
    count * density[2] >= (density[2] - density[1]) * size

SuppressedByWinners_Never(numActiveNeighbors, density, size) == FALSE

\* the neighbours that already won take the density's share or more
SuppressedByWinners(numActiveNeighbors, density, size) ==
    ~BelowShare(numActiveNeighbors, density, size)

\* the columns decided active among columns 0..i-1 are in active; decide
\* column i and the ones after it
RECURSIVE LocalCompetition(_, _, _, _, _)
LocalCompetition(pooler, overlaps, density, i, active) ==
    IF i >= pooler.numColumns THEN active
    ELSE LET neighbors == Elements(getNeighborsND(i, pooler.ColumnDimensions,
                                       pooler.inhibitionRadius, FALSE))
             numNotBigger == Cardinality({j \in neighbors :
                                 At(overlaps, j) <= At(overlaps, i)})
             numActiveNeighbors == Cardinality(neighbors \cap active)
             wins == /\ AtLeastRest(numNotBigger, density, Cardinality(neighbors))
                     /\ ~SuppressedByWinners(numActiveNeighbors, density,
                                             Cardinality(neighbors))
         IN  LocalCompetition(pooler, overlaps, density, i + 1,
                 IF wins THEN active \cup {i} ELSE active)

inhibitColumnsLocal(pooler, overlaps, density) ==
    AscendingSeq(LocalCompetition(pooler, overlaps, density, 0, {}))

(* Inputs: the vectors of TestInhibitColumnsGlobal, TestInhibitColumnsLocal
   and TestGetNeighborsND, and every small vector and lattice *)

GlobalTestOverlaps == <<1, 2, 1, 4, 8, 3, 12, 5, 4, 1>>
GlobalTestDensity == <<3, 10>>
GlobalTestActive == <<4, 6, 7>>
GlobalTestOverlaps2 == <<0, 1, 2, 3, 4, 5, 6, 7, 8, 9>>
GlobalTestDensity2 == <<5, 10>>
GlobalTestActive2 == <<5, 6, 7, 8, 9>>

LocalTestOverlaps == <<10, 20, 70, 0, 30, 40, 160, 10, 15, 17>>
LocalTestDensity == <<5, 10>>
LocalTestRadius == 2
LocalTestActive == <<1, 2, 5, 6, 9>>
LocalTestOverlaps2 == <<10, 10, 10, 10, 10, 10, 10, 10, 10, 10>>
LocalTestDensity2 == <<3333, 10000>>
LocalTestRadius2 == 3
LocalTestActive2 == <<0, 1, 4, 5, 8>>

OverlapVectors == UNION {[1..n -> 0..MaxOverlap] : n \in 1..MaxColumns}

Densities ==
    {<<0, 10>>, GlobalTestDensity, LocalTestDensity2, LocalTestDensity, <<10, 10>>}

Lattices == UNION {[1..rank -> 1..MaxAxis] : rank \in 1..MaxRank}

NoSegment == <<>>

GlobalCalls ==
    {[call |-> "inhibitColumnsGlobal", overlaps |-> o, density |-> d,
      inhibitionRadius |-> 0] :
        o \in OverlapVectors, d \in Densities}
    \cup {[call |-> "inhibitColumnsGlobal", overlaps |-> GlobalTestOverlaps,
           density |-> GlobalTestDensity, inhibitionRadius |-> 0],
          [call |-> "inhibitColumnsGlobal", overlaps |-> GlobalTestOverlaps2,
           density |-> GlobalTestDensity2, inhibitionRadius |-> 0]}

LocalCalls ==
    {[call |-> "inhibitColumnsLocal", overlaps |-> o, density |-> d,
      inhibitionRadius |-> r] :
        o \in OverlapVectors, d \in Densities, r \in 1..MaxRadius}
    \cup {[call |-> "inhibitColumnsLocal", overlaps |-> LocalTestOverlaps,
           density |-> LocalTestDensity, inhibitionRadius |-> LocalTestRadius],
          [call |-> "inhibitColumnsLocal", overlaps |-> LocalTestOverlaps2,
           density |-> LocalTestDensity2, inhibitionRadius |-> LocalTestRadius2]}

NeighborCalls ==
    {[call |-> "getNeighborsND", columnIndex |-> c[2], dimensions |-> c[1],
      radius |-> r, wrapAround |-> w] :
        c \in {<<d, i>> \in Lattices \X (0..(NumCells([k \in 1..MaxRank |-> MaxAxis]) - 1)) :
                   i < NumCells(d)},
        r \in 0..MaxRadius, w \in BOOLEAN}

(* State machine of the inhibition: a call is drawn, then made *)

InitInhibit ==
    /\ lrnIterationIdx = 1
    /\ seg = NoSegment
    /\ pre = NoSegment
    /\ op = "none"
    /\ ret = <<>>
    /\ outcome = "ok"
    /\ \/ /\ arg \in GlobalCalls \cup LocalCalls
          /\ sp = InhibitionPooler(Len(arg.overlaps), arg.inhibitionRadius)
       \/ /\ arg \in NeighborCalls
          /\ sp = NoPooler

Called(result) ==
    /\ op' = arg.call
    /\ ret' = result
    /\ UNCHANGED <<lrnIterationIdx, seg, arg, outcome, pre, sp>>

DoInhibitColumnsGlobal ==
    /\ op = "none"
    /\ arg.call = "inhibitColumnsGlobal"
    /\ Called(inhibitColumnsGlobal(sp, arg.overlaps, arg.density))

DoInhibitColumnsLocal ==
    /\ op = "none"
    /\ arg.call = "inhibitColumnsLocal"
    /\ Called(inhibitColumnsLocal(sp, arg.overlaps, arg.density))

DoGetNeighborsND ==
    /\ op = "none"
    /\ arg.call = "getNeighborsND"
    /\ Called(getNeighborsND(arg.columnIndex, arg.dimensions, arg.radius,
                             arg.wrapAround))

NextInhibit ==
    \/ DoInhibitColumnsGlobal
    \/ DoInhibitColumnsLocal
    \/ DoGetNeighborsND

SpecInhibit == InitInhibit /\ [][NextInhibit]_vars

---------------------------------------------------------------------------
(* Global inhibition *)

\* C14: inhibitColumnsGlobal returns exactly int(density * numColumns)
\* column indices, in strictly ascending order; every returned column has an
\* overlap at least that of every column left out, and of two columns with
\* equal overlap at the cut the one with the higher index is the one
\* returned.  The two vectors of TestInhibitColumnsGlobal give {4, 6, 7} and
\* {5, 6, 7, 8, 9}.
C14_GlobalKeepsTopOverlaps ==
    /\ inhibitColumnsGlobal(InhibitionPooler(Len(GlobalTestOverlaps), 0),
           GlobalTestOverlaps, GlobalTestDensity) = GlobalTestActive
    /\ inhibitColumnsGlobal(InhibitionPooler(Len(GlobalTestOverlaps2), 0),
           GlobalTestOverlaps2, GlobalTestDensity2) = GlobalTestActive2
    /\ op = "inhibitColumnsGlobal" =>
          LET chosen == Elements(ret)
              others == (0..(sp.numColumns - 1)) \ chosen
          IN  /\ Len(ret) * arg.density[2] <= arg.density[1] * sp.numColumns
              /\ (Len(ret) + 1) * arg.density[2] > arg.density[1] * sp.numColumns
              /\ \A k \in 1..(Len(ret) - 1) : ret[k] < ret[k + 1]
              /\ chosen \subseteq 0..(sp.numColumns - 1)
              /\ \A w \in chosen, x \in others :
                    /\ At(arg.overlaps, w) >= At(arg.overlaps, x)
                    /\ At(arg.overlaps, w) = At(arg.overlaps, x) => x < w

\* a tie at the cut: the lower of two equal columns is left out
C14_Witness ==
    /\ op = "inhibitColumnsGlobal"
    /\ \E w \in Elements(ret), x \in (0..(sp.numColumns - 1)) \ Elements(ret) :
          /\ At(arg.overlaps, w) = At(arg.overlaps, x)
          /\ x < w

---------------------------------------------------------------------------
(* Local inhibition *)

LocalCalled == op = "inhibitColumnsLocal"

\* the columns within the inhibition radius of column i on the line of
\* columns, i itself left out
LineNeighbors(i) ==
    {j \in 0..(sp.numColumns - 1) :
        /\ j # i
        /\ j - i <= sp.inhibitionRadius
        /\ i - j <= sp.inhibitionRadius}

\* column i holds its own against its neighbours' overlaps
HoldsOwn(i) ==
    AtLeastRest(Cardinality({j \in LineNeighbors(i) :
                                At(arg.overlaps, j) <= At(arg.overlaps, i)}),
                arg.density, Cardinality(LineNeighbors(i)))

\* the neighbours of column i decided active before it
EarlierWinners(i) == {j \in LineNeighbors(i) \cap Elements(ret) : j < i}

---------------------------------------------------------------------------
(* Spatial pooler: the permanence store.

   Numbers.  A permanence (float64) is an integer number of quanta; the
   tests' values are taken in thousandths (ten-thousandths in
   TestRaisePermanenceThreshold).  A matrix is the sequence of its rows;
   rows, columns and inputs are numbered from 0 and read with At. *)

MaxExcess == 1        \* a row given to updatePermanencesForColumn leaves
                      \* [SynPermMin, SynPermMax] by at most MaxExcess
MaxStimulus == 1      \* sp.StimulusThreshold is 0..MaxStimulus

\* sp.numColumns and sp.numInputs of the pooler explored
PoolerColumns == 2
PoolerInputs == 2

\* the iterations after which raisePermanenceToThreshold gives up
RaiseIterationBound == 10

Pooler(config, potentialPools, permanences, connectedSynapses, connectedCounts) ==
    [numColumns |-> Len(permanences),
     numInputs |-> Len(potentialPools[1]),
     SynPermMin |-> config.SynPermMin,
     SynPermMax |-> config.SynPermMax,
     SynPermTrimThreshold |-> config.SynPermTrimThreshold,
     SynPermConnected |-> config.SynPermConnected,
     SynPermActiveInc |-> config.SynPermActiveInc,
     SynPermInactiveDec |-> config.SynPermInactiveDec,
     SynPermBelowStimulusInc |-> config.SynPermBelowStimulusInc,
     StimulusThreshold |-> config.StimulusThreshold,
     potentialPools |-> potentialPools,
     permanences |-> permanences,
     connectedSynapses |-> connectedSynapses,
     connectedCounts |-> connectedCounts]

Inputs(pooler) == 0..(pooler.numInputs - 1)

Columns(pooler) == 0..(pooler.numColumns - 1)

\* sp.potentialPools.GetRowIndices(index)
PotentialPool(pooler, index) ==
    {i \in Inputs(pooler) : At(At(pooler.potentialPools, index), i)}

IsConnected_Above(pooler, value) == value > pooler.SynPermConnected

\* perm[i] >= sp.SynPermConnected
IsConnected(pooler, value) == value >= pooler.SynPermConnected

NumConnected(pooler, perm, mask) ==
    Cardinality({i \in mask : IsConnected(pooler, At(perm, i))})

RECURSIVE raisePermanenceToThreshold(_, _, _, _)
raisePermanenceToThreshold(pooler, perm, mask, iterationsLeft) ==
    IF \/ NumConnected(pooler, perm, mask) >= pooler.StimulusThreshold
       \/ iterationsLeft = 0
    THEN perm
    ELSE raisePermanenceToThreshold(pooler,
             [k \in 1..Len(perm) |->
                 IF (k - 1) \in mask
                 THEN perm[k] + pooler.SynPermBelowStimulusInc
                 ELSE perm[k]],
             mask, iterationsLeft - 1)

Clip(pooler, value) ==
    IF value < pooler.SynPermMin THEN pooler.SynPermMin
    ELSE IF value > pooler.SynPermMax THEN pooler.SynPermMax
    ELSE value

Trim_StrictlyBelow(pooler, value) ==
    IF value < pooler.SynPermTrimThreshold THEN 0 ELSE value

Trim(pooler, value) ==
    IF value <= pooler.SynPermTrimThreshold THEN 0 ELSE value

updatePermanencesForColumn(pooler, perm, index, raisePerm) ==
    LET raised == IF raisePerm
                  THEN raisePermanenceToThreshold(pooler, perm,
                           PotentialPool(pooler, index), RaiseIterationBound)
                  ELSE perm
        stored == [k \in 1..Len(perm) |-> Trim(pooler, Clip(pooler, raised[k]))]
        connected == [k \in 1..Len(perm) |-> IsConnected(pooler, stored[k])]
    IN  [pooler EXCEPT
            !.permanences[index + 1] = stored,
            !.connectedSynapses[index + 1] = connected,
            !.connectedCounts[index + 1] =
                Cardinality({k \in 1..Len(perm) : connected[k]})]

AdaptedRow_WholeRow(pooler, inputVector, column) ==
    [k \in 1..pooler.numInputs |->
        IF inputVector[k]
        THEN At(pooler.permanences, column)[k] + pooler.SynPermActiveInc
        ELSE At(pooler.permanences, column)[k] - pooler.SynPermInactiveDec]

\* the row of an active column after the increments and decrements
AdaptedRow(pooler, inputVector, column) ==
    [k \in 1..pooler.numInputs |->
        IF (k - 1) \in PotentialPool(pooler, column)
        THEN IF inputVector[k]
             THEN At(pooler.permanences, column)[k] + pooler.SynPermActiveInc
             ELSE At(pooler.permanences, column)[k] - pooler.SynPermInactiveDec
        ELSE At(pooler.permanences, column)[k]]

RECURSIVE adaptSynapses(_, _, _, _)
adaptSynapses(pooler, inputVector, activeColumns, raisePerm) ==
    IF activeColumns = <<>> THEN pooler
    ELSE adaptSynapses(
             updatePermanencesForColumn(pooler,
                 AdaptedRow(pooler, inputVector, Head(activeColumns)),
                 Head(activeColumns), raisePerm),
             inputVector, Tail(activeColumns), raisePerm)

(* The set-ups and expectations of TestUpdatePermanencesForColumn,
   TestAdaptSynapses and TestRaisePermanenceThreshold *)

\* NewSparseBinaryMatrixFromInts, Make2DBool
Bits(ints) == [r \in 1..Len(ints) |-> [k \in 1..Len(ints[r]) |-> ints[r][k] = 1]]

\* a pooler whose matrices are as NewSparseBinaryMatrix and MakeSparseMatrix
\* leave them
BlankPooler(config, numColumns, numInputs) ==
    Pooler(config,
           [c \in 1..numColumns |-> [k \in 1..numInputs |-> FALSE]],
           [c \in 1..numColumns |-> [k \in 1..numInputs |-> 0]],
           [c \in 1..numColumns |-> [k \in 1..numInputs |-> FALSE]],
           [c \in 1..numColumns |-> 0])

UpdateTest ==
    [config |-> [SynPermMin |-> 0, SynPermMax |-> 1000,
                 SynPermTrimThreshold |-> 50, SynPermConnected |-> 100,
                 SynPermActiveInc |-> 0, SynPermInactiveDec |-> 0,
                 SynPermBelowStimulusInc |-> 0, StimulusThreshold |-> 0],
     permanences |-> << <<-100, 500, 400, 10, 20>>,
                        <<300, 10, 20, 120, 90>>,
                        <<70, 50, 1030, 190, 60>>,
                        <<180, 90, 110, 10, 30>>,
                        <<200, 101, 50, -90, 1100>> >>,
     trueConnectedSynapses |-> Bits(<< <<0, 1, 1, 0, 0>>,
                                       <<1, 0, 0, 1, 0>>,
                                       <<0, 0, 1, 1, 0>>,
                                       <<1, 0, 1, 0, 0>>,
                                       <<1, 1, 0, 0, 1>> >>),
     trueConnectedCounts |-> <<2, 2, 2, 2, 3>>]

\* the loop of the test: every row is given to its column in turn
RECURSIVE UpdateEveryColumn(_, _, _)
UpdateEveryColumn(pooler, permanences, i) ==
    IF i >= Len(permanences) THEN pooler
    ELSE UpdateEveryColumn(
             updatePermanencesForColumn(pooler, At(permanences, i), i, TRUE),
             permanences, i + 1)

AdaptTest ==
    [config |-> [SynPermMin |-> 0, SynPermMax |-> 1000,
                 SynPermTrimThreshold |-> 50, SynPermConnected |-> 0,
                 SynPermActiveInc |-> 100, SynPermInactiveDec |-> 10,
                 SynPermBelowStimulusInc |-> 0, StimulusThreshold |-> 0],
     potentialPools |-> Bits(<< <<1, 1, 1, 1, 0, 0, 0, 0>>,
                                <<1, 0, 0, 0, 1, 1, 0, 1>>,
                                <<0, 0, 1, 0, 0, 0, 1, 0>>,
                                <<1, 0, 0, 0, 0, 0, 1, 0>> >>),
     inputVector |-> <<TRUE, FALSE, FALSE, TRUE, TRUE, FALSE, TRUE, FALSE>>,
     activeColumns |-> <<0, 1, 2>>,
     permanences |-> << <<200, 120, 90, 40, 0, 0, 0, 0>>,
                        <<150, 0, 0, 0, 180, 120, 0, 450>>,
                        <<0, 0, 14, 0, 0, 0, 110, 0>>,
                        <<40, 0, 0, 0, 0, 0, 178, 0>> >>,
     truePermanences |-> << <<300, 110, 80, 140, 0, 0, 0, 0>>,
                            <<250, 0, 0, 0, 280, 110, 0, 440>>,
                            <<0, 0, 0, 0, 0, 0, 210, 0>>,
                            <<40, 0, 0, 0, 0, 0, 178, 0>> >>]

RaiseTest ==
    [config |-> [SynPermMin |-> 0, SynPermMax |-> 10000,
                 SynPermTrimThreshold |-> 0, SynPermConnected |-> 1000,
                 SynPermActiveInc |-> 0, SynPermInactiveDec |-> 0,
                 SynPermBelowStimulusInc |-> 100, StimulusThreshold |-> 3],
     p |-> << <<0, 1100, 950, 920, 100>>,
              <<1200, 1500, 200, 1200, 900>>,
              <<5100, 810, 250, 890, 3100>>,
              <<1800, 601, 1100, 110, 300>>,
              <<110, 110, 110, 110, 110>> >>,
     truePermanences |-> << <<100, 1200, 1050, 1020, 200>>,
                            <<1200, 1500, 200, 1200, 900>>,
                            <<5300, 1010, 450, 1090, 3300>>,
                            <<2200, 1001, 1500, 510, 700>>,
                            <<1010, 1010, 1010, 1010, 1010>> >>,
     maskPP |-> {0, 1, 2, 3, 4}]

\* the model agrees with what the three tests assert
AgreesWithUpdateTest ==
    LET after == UpdateEveryColumn(
                     BlankPooler(UpdateTest.config, Len(UpdateTest.permanences),
                                 Len(UpdateTest.permanences[1])),
                     UpdateTest.permanences, 0)
    IN  /\ after.connectedSynapses = UpdateTest.trueConnectedSynapses
        /\ after.connectedCounts = UpdateTest.trueConnectedCounts

AgreesWithAdaptTest ==
    LET blank == BlankPooler(AdaptTest.config, Len(AdaptTest.permanences),
                             Len(AdaptTest.inputVector))
        before == [blank EXCEPT !.potentialPools = AdaptTest.potentialPools,
                                !.permanences = AdaptTest.permanences]
    IN  \A raisePerm \in BOOLEAN :
            adaptSynapses(before, AdaptTest.inputVector, AdaptTest.activeColumns,
                          raisePerm).permanences = AdaptTest.truePermanences

AgreesWithRaiseTest ==
    LET pooler == BlankPooler(RaiseTest.config, Len(RaiseTest.p), Len(RaiseTest.p[1]))
    IN  \A i \in 1..Len(RaiseTest.p) :
            raisePermanenceToThreshold(pooler, RaiseTest.p[i], RaiseTest.maskPP,
                                       RaiseIterationBound)
                = RaiseTest.truePermanences[i]

(* Inputs of the permanence store *)

\* the parameters of the pooler explored, in quanta
PoolerConfig(stimulusThreshold) ==
    [SynPermMin |-> 0, SynPermMax |-> 3,
     SynPermTrimThreshold |-> 1, SynPermConnected |-> 2,
     SynPermActiveInc |-> 2, SynPermInactiveDec |-> 1,
     SynPermBelowStimulusInc |-> 1, StimulusThreshold |-> stimulusThreshold]

\* the values updatePermanencesForColumn can have stored
StoredValues(config) ==
    {v \in config.SynPermMin..config.SynPermMax :
        v = 0 \/ v > config.SynPermTrimThreshold}

StoredRows(config) == [1..PoolerInputs -> StoredValues(config)]

PotentialPoolMatrices == [1..PoolerColumns -> [1..PoolerInputs -> BOOLEAN]]

\* a pooler whose connected bitmaps and counts are those of its permanences
ConsistentPooler(config, potentialPools, permanences) ==
    LET blank == BlankPooler(config, PoolerColumns, PoolerInputs)
    IN  [blank EXCEPT
            !.potentialPools = potentialPools,
            !.permanences = permanences,
            !.connectedSynapses =
                [c \in 1..PoolerColumns |-> [k \in 1..PoolerInputs |->
                    IsConnected(blank, permanences[c][k])]],
            !.connectedCounts =
                [c \in 1..PoolerColumns |-> Cardinality({k \in 1..PoolerInputs :
                    IsConnected(blank, permanences[c][k])})]]

UpdateCalls(config) ==
    {[call |-> "updatePermanencesForColumn", perm |-> p, index |-> i,
      raisePerm |-> r] :
        p \in [1..PoolerInputs ->
                  (config.SynPermMin - MaxExcess)..(config.SynPermMax + MaxExcess)],
        i \in 0..(PoolerColumns - 1), r \in BOOLEAN}

\* adaptSynapses hands each row to updatePermanencesForColumn; which
\* raise flag it passes is left open
AdaptCalls ==
    {[call |-> "adaptSynapses", inputVector |-> v, activeColumns |-> a,
      raisePerm |-> r] :
        v \in [1..PoolerInputs -> BOOLEAN], a \in IndexLists(PoolerColumns),
        r \in BOOLEAN}

(* State machine of the permanence store: a pooler and a call are drawn,
   then the call is made *)

InitPerm ==
    /\ lrnIterationIdx = 1
    /\ seg = NoSegment
    /\ op = "none"
    /\ ret = <<>>
    /\ outcome = "ok"
    /\ \E t \in 0..MaxStimulus, pools \in PotentialPoolMatrices :
          \/ /\ \E row \in StoredRows(PoolerConfig(t)) :
                   sp = ConsistentPooler(PoolerConfig(t), pools,
                                         [c \in 1..PoolerColumns |-> row])
             /\ arg \in UpdateCalls(PoolerConfig(t))
          \/ /\ \E permanences \in [1..PoolerColumns -> StoredRows(PoolerConfig(t))] :
                   sp = ConsistentPooler(PoolerConfig(t), pools, permanences)
             /\ arg \in AdaptCalls
    /\ pre = sp

PoolerCalled(after) ==
    /\ op' = arg.call
    /\ sp' = after
    /\ pre' = sp
    /\ UNCHANGED <<lrnIterationIdx, seg, arg, ret, outcome>>

DoUpdatePermanencesForColumn ==
    /\ op = "none"
    /\ arg.call = "updatePermanencesForColumn"
    /\ PoolerCalled(updatePermanencesForColumn(sp, arg.perm, arg.index,
                                               arg.raisePerm))

DoAdaptSynapses ==
    /\ op = "none"
    /\ arg.call = "adaptSynapses"
    /\ PoolerCalled(adaptSynapses(sp, arg.inputVector, arg.activeColumns,
                                  arg.raisePerm))

NextPerm ==
    \/ DoUpdatePermanencesForColumn
    \/ DoAdaptSynapses

SpecPerm == InitPerm /\ [][NextPerm]_vars

---------------------------------------------------------------------------
(* updatePermanencesForColumn: range and trimming *)

PermanenceUpdateCalled == op = "updatePermanencesForColumn"

\* the row stored for the column of the call
StoredRow == At(sp.permanences, arg.index)

StoredInRange ==
    \A k \in 1..Len(StoredRow) :
        /\ pre.SynPermMin <= StoredRow[k]
        /\ StoredRow[k] <= pre.SynPermMax

\* the raise-to-threshold step increments input k - 1 of the row given
RaisedAt(k) ==
    /\ arg.raisePerm
    /\ (k - 1) \in PotentialPool(pre, arg.index)
    /\ NumConnected(pre, arg.perm, PotentialPool(pre, arg.index))
           < pre.StimulusThreshold

---------------------------------------------------------------------------
(* updatePermanencesForColumn: connected bitmap and counts *)

\* C17: after updatePermanencesForColumn(perm, i, raise), column i's
\* connected bitmap holds exactly the inputs whose stored permanence is
\* >= SynPermConnected and connectedCounts[i] is their number; the bitmaps
\* and counts of all other columns are unchanged.  The rows of
\* TestUpdatePermanencesForColumn give the bitmaps and the counts
\* {2, 2, 2, 2, 3} the test expects.
C17_ConnectedFollowsStored ==
    /\ AgreesWithUpdateTest
    /\ PermanenceUpdateCalled =>
          /\ \A k \in 1..Len(StoredRow) :
                At(sp.connectedSynapses, arg.index)[k]
                    <=> StoredRow[k] >= pre.SynPermConnected
          /\ At(sp.connectedCounts, arg.index) =
                 Cardinality({k \in 1..Len(StoredRow) :
                                 StoredRow[k] >= pre.SynPermConnected})
          /\ \A c \in Columns(pre) \ {arg.index} :
                /\ At(sp.connectedSynapses, c) = At(pre.connectedSynapses, c)
                /\ At(sp.connectedCounts, c) = At(pre.connectedCounts, c)

\* the column's count changes, next to a column that has connected inputs
C17_Witness ==
    /\ PermanenceUpdateCalled
    /\ At(sp.connectedCounts, arg.index) # At(pre.connectedCounts, arg.index)
    /\ \E k \in 1..Len(StoredRow) : StoredRow[k] = pre.SynPermConnected
    /\ \E c \in Columns(pre) \ {arg.index} : At(pre.connectedCounts, c) > 0

---------------------------------------------------------------------------
(* adaptSynapses *)

AdaptCalled == op = "adaptSynapses"

\* permanence of input k - 1 of column c after the increment or decrement
Adjusted(c, k) ==
    IF (k - 1) \in PotentialPool(pre, c)
    THEN IF arg.inputVector[k]
         THEN At(pre.permanences, c)[k] + pre.SynPermActiveInc
         ELSE At(pre.permanences, c)[k] - pre.SynPermInactiveDec
    ELSE At(pre.permanences, c)[k]

\* a value clipped to [SynPermMin, SynPermMax], then trimmed
ClippedAndTrimmed(value) ==
    LET clipped == IF value < pre.SynPermMin THEN pre.SynPermMin
                   ELSE IF value > pre.SynPermMax THEN pre.SynPermMax
                   ELSE value
    IN  IF clipped <= pre.SynPermTrimThreshold THEN 0 ELSE clipped

\* updatePermanencesForColumn raises the adjusted row of column c
RaiseFires(c) ==
    /\ arg.raisePerm
    /\ Cardinality({k \in 1..pre.numInputs :
                       /\ (k - 1) \in PotentialPool(pre, c)
                       /\ Adjusted(c, k) >= pre.SynPermConnected})
           < pre.StimulusThreshold

---------------------------------------------------------------------------
(* getNeighborsND *)

NeighborsCalled == op = "getNeighborsND"

\* distance of two coordinates of an axis: around the axis when wrapping
AxisDistance(a, b, size, wrapAround) ==
    IF wrapAround
    THEN Min((a - b) % size, (b - a) % size)
    ELSE IF a < b THEN b - a ELSE a - b

\* the indices of the lattice within radius of the origin on every axis
WithinRadius(origin, dimensions, radius, wrapAround) ==
    {index \in 0..(NumCells(dimensions) - 1) :
        \A axis \in 1..Len(dimensions) :
            AxisDistance(Coordinate(index, dimensions, axis),
                         Coordinate(origin, dimensions, axis),
                         dimensions[axis], wrapAround) <= radius}

---------------------------------------------------------------------------
(* Spatial pooler: boosting.

   Numbers.  A duty cycle (float64) is an integer number of units (1e-7 in
   the vectors of the test); a boost factor (float64) is the quotient
   <<num, den>> in lowest terms. *)

MaxDuty == 3          \* duty cycles of the pooler explored are at most MaxDuty

\* float64(num) / float64(den), den > 0
Quotient(num, den) ==
    LET g == GCD(num, den)
    IN  <<num \div g, den \div g>>

Interpolate_FromZero(maxBoost, minActive, active) ==
    Quotient(minActive + maxBoost * (minActive - active), minActive)

\* 1 + (MaxBoost - 1) * (minActive - active) / minActive
Interpolate(maxBoost, minActive, active) ==
    Quotient(minActive + (maxBoost - 1) * (minActive - active), minActive)

BoostFactor(maxBoost, minActive, active) ==
    IF minActive <= 0 THEN <<1, 1>>
    ELSE IF active >= minActive THEN <<1, 1>>
    ELSE Interpolate(maxBoost, minActive, active)

updateBoostFactors(pooler) ==
    [pooler EXCEPT !.boostFactors =
        [c \in 1..pooler.numColumns |->
            BoostFactor(pooler.MaxBoost, pooler.minActiveDutyCycles[c],
                        pooler.activeDutyCycles[c])]]

BoostPooler(maxBoost, minActiveDutyCycles, activeDutyCycles) ==
    [MaxBoost |-> maxBoost,
     numColumns |-> Len(minActiveDutyCycles),
     minActiveDutyCycles |-> minActiveDutyCycles,
     activeDutyCycles |-> activeDutyCycles,
     boostFactors |-> [c \in 1..Len(minActiveDutyCycles) |-> <<0, 1>>]]

\* the four set-ups of UpdateBoostFactorsTest and the factors it expects
BoostTest ==
    << [pooler |-> BoostPooler(10, <<-1, -1, -1, -1, -1, -1>>,
               <<1000000, 3000000, 200000, 400000, 7000000, 1200000>>),
        trueBoostFactor |-> <<1, 1>>],
       [pooler |-> BoostPooler(10,
               <<1000000, 3000000, 200000, 400000, 7000000, 1200000>>,
               <<1000000, 3000000, 200000, 400000, 7000000, 1200000>>),
        trueBoostFactor |-> <<1, 1>>],
       [pooler |-> BoostPooler(10,
               <<1000000, 2000000, 200000, 300000, 7000000, 1200000>>,
               <<100000, 200000, 20000, 30000, 700000, 120000>>),
        trueBoostFactor |-> <<91, 10>>],
       [pooler |-> BoostPooler(10,
               <<1000000, 2000000, 200000, 300000, 7000000, 1200000>>,
               <<0, 0, 0, 0, 0, 0>>),
        trueBoostFactor |-> <<10, 1>>] >>

AgreesWithBoostTest ==
    \A t \in 1..Len(BoostTest) :
        \A c \in 1..BoostTest[t].pooler.numColumns :
            updateBoostFactors(BoostTest[t].pooler).boostFactors[c]
                = BoostTest[t].trueBoostFactor

\* sp.MaxBoost of the poolers explored
MaxBoosts == {1, 2, 10}

DutyCycleVectors(lowest) == [1..PoolerColumns -> lowest..MaxDuty]

(* State machine of the boosting: a pooler is drawn, then updated *)

InitBoost ==
    /\ lrnIterationIdx = 1
    /\ seg = NoSegment
    /\ op = "none"
    /\ arg = <<>>
    /\ ret = <<>>
    /\ outcome = "ok"
    /\ \E maxBoost \in MaxBoosts, minActive \in DutyCycleVectors(-1),
          active \in DutyCycleVectors(0) :
          sp = BoostPooler(maxBoost, minActive, active)
    /\ pre = sp

DoUpdateBoostFactors ==
    /\ op = "none"
    /\ op' = "updateBoostFactors"
    /\ sp' = updateBoostFactors(sp)
    /\ pre' = sp
    /\ UNCHANGED <<lrnIterationIdx, seg, arg, ret, outcome>>

NextBoost == DoUpdateBoostFactors

SpecBoost == InitBoost /\ [][NextBoost]_vars

---------------------------------------------------------------------------
(* Boost factors *)

BoostCalled == op = "updateBoostFactors"

\* C20: after updateBoostFactors, for every column: the boost factor is 1
\* whenever minActiveDutyCycle <= 0 or activeDutyCycle >= minActiveDutyCycle;
\* it is exactly MaxBoost when activeDutyCycle = 0 and minActiveDutyCycle > 0;
\* in between it is 1 + (MaxBoost - 1) * (minActive - active) / minActive;
\* so it lies in [1, MaxBoost].  The four set-ups of UpdateBoostFactorsTest
\* give 1, 1, 9.1 and MaxBoost.
C20_BoostInterpolates ==
    /\ AgreesWithBoostTest
    /\ BoostCalled =>
          \A c \in 1..sp.numColumns :
              LET minActive == pre.minActiveDutyCycles[c]
                  active == pre.activeDutyCycles[c]
                  num == sp.boostFactors[c][1]
                  den == sp.boostFactors[c][2]
              IN  /\ den > 0
                  /\ (minActive <= 0 \/ active >= minActive) => num = den
                  /\ (active = 0 /\ minActive > 0) => num = pre.MaxBoost * den
                  /\ (minActive > 0 /\ active < minActive) =>
                        (num - den) * minActive =
                            den * (pre.MaxBoost - 1) * (minActive - active)
                  /\ den <= num
                  /\ num <= pre.MaxBoost * den

\* a column strictly between no activity and its target, boosted strictly
\* between 1 and MaxBoost, next to a column without activity
C20_Witness ==
    /\ BoostCalled
    /\ \E c, d \in 1..sp.numColumns :
          /\ pre.activeDutyCycles[c] > 0
          /\ pre.activeDutyCycles[c] < pre.minActiveDutyCycles[c]
          /\ sp.boostFactors[c][1] > sp.boostFactors[c][2]
          /\ sp.boostFactors[c][1] < pre.MaxBoost * sp.boostFactors[c][2]
          /\ pre.activeDutyCycles[d] = 0
          /\ pre.minActiveDutyCycles[d] > 0
          /\ sp.boostFactors[d] = <<pre.MaxBoost, 1>>

---------------------------------------------------------------------------
(* Frame of freeNSynapses *)

\* after holds exactly the synapses of before at the indices outside freed,
\* each with its source column, source cell and permanence, in before's order
KeptInOrder(before, after, freed) ==
    \E f \in [1..Len(after) -> 0..(Len(before) - 1)] :
        /\ \A j, k \in 1..Len(after) : j < k => f[j] < f[k]
        /\ {f[k] : k \in 1..Len(after)} = (0..(Len(before) - 1)) \ freed
        /\ \A k \in 1..Len(after) : after[k] = At(before, f[k])

\* C21: after a successful freeNSynapses call the synapses that were not
\* freed remain in the segment with unchanged source column, source cell and
\* permanence, in the same relative order as before the call. The second
\* conjunct states the same of the copy loop of lines 235-242 for every
\* candidate list over the segment reached.
C21_SurvivorsKeepOrder ==
    /\ (FreeCalled /\ outcome = "ok") =>
          \E freed \in SUBSET (0..(Len(pre.syns) - 1)) :
              KeptInOrder(pre.syns, seg.syns, freed)
    /\ \A candidates \in IndexLists(Len(seg.syns)) :
          KeptInOrder(seg.syns, RemoveCandidates(seg.syns, candidates),
                      Named(candidates))

\* a successful call on a segment whose two synapses differ, so that their
\* order shows
C21_Witness ==
    /\ FreeCalled
    /\ outcome = "ok"
    /\ Len(pre.syns) = 2
    /\ pre.syns[1] # pre.syns[2]
    /\ Len(seg.syns) = 2
    /\ seg.syns[1] = pre.syns[1]
    /\ seg.syns[2] = pre.syns[2]

---------------------------------------------------------------------------
(* Frame of updateSynapses *)

\* the number, the order and the source cells of the synapses are those of
\* before the call
SameSources ==
    /\ Len(seg.syns) = Len(pre.syns)
    /\ \A k \in 1..Len(pre.syns) :
          /\ seg.syns[k].SrcCellCol = pre.syns[k].SrcCellCol
          /\ seg.syns[k].SrcCellIdx = pre.syns[k].SrcCellIdx

\* C22: updateSynapses(indices, delta) leaves every synapse whose index is
\* not an element of indices with the same permanence, and never changes the
\* number, order or source (column, cell) of the segment's synapses.
C22_LeavesUnnamedSynapses ==
    UpdateCalled =>
        /\ SameSources
        /\ \A i \in (0..(Len(pre.syns) - 1)) \ Named(arg.synapses) :
              At(seg.syns, i).Permanence = At(pre.syns, i).Permanence

\* the part of C22 that the code keeps: number, order and sources
C22_KeepsSources == UpdateCalled => SameSources

---------------------------------------------------------------------------
(* Idempotence of dutyCycle *)

\* the call dutyCycle(false, false) made next, at the same iteration
FollowingCall == dutyCycle(seg, lrnIterationIdx, FALSE, FALSE)

\* C23: within one learning iteration, in both regimes, after any
\* non-read-only dutyCycle call the cache iteration equals the current
\* iteration, and a following dutyCycle(false, false) call at the same
\* iteration returns the same value and leaves lastPosDutyCycle and
\* lastPosDutyCycleIteration unchanged.
C23_FollowingCallChangesNothing ==
    (DutyCalled /\ ~arg.readOnly) =>
        /\ seg.lastPosDutyCycleIteration = lrnIterationIdx
        /\ FollowingCall.value = ret.value
        /\ FollowingCall.segment.lastPosDutyCycle = seg.lastPosDutyCycle
        /\ FollowingCall.segment.lastPosDutyCycleIteration =
              seg.lastPosDutyCycleIteration

\* beyond tier 0, a call with active = true that moved the cache forward
C23_Witness ==
    /\ DutyCalled
    /\ ~arg.readOnly
    /\ arg.active
    /\ ~InTierZero(lrnIterationIdx)
    /\ pre.lastPosDutyCycleIteration < lrnIterationIdx
    /\ ret.value # pre.lastPosDutyCycle
    /\ seg.lastPosDutyCycle = ret.value

\* in tier 0, a call that wrote a cache differing from the old one
C23_WitnessTierZero ==
    /\ DutyCalled
    /\ ~arg.readOnly
    /\ InTierZero(lrnIterationIdx)
    /\ pre.lastPosDutyCycleIteration < lrnIterationIdx
    /\ seg.lastPosDutyCycle # pre.lastPosDutyCycle

===========================================================================
